---- MODULE Spec2Model ----
(***************************************************************************)
(* Model of the QR-stamping service of app.py: the marker locator          *)
(* (find_marker_positions), the compositor (add_qr_to_pdf) and the four    *)
(* request handlers, with the temporary files the handlers create.         *)
(*                                                                         *)
(* A PDF is a record [valid, pages]; a page is [w, h, contents] where      *)
(* contents is the page's content stream, a sequence of operations in      *)
(* paint order.  Coordinates are integers (the code's floats are only      *)
(* added, subtracted and compared).                                        *)
(***************************************************************************)
EXTENDS Integers, Sequences, FiniteSets, TLC

VARIABLES reqs, fs

vars == <<reqs, fs>>

(***************************************************************************)
(* Bounds of the model.                                                    *)
(***************************************************************************)
NumReqs == 2
MaxPages == 2
MaxPos == 2

(***************************************************************************)
(* Program constants.                                                      *)
(***************************************************************************)
qr_size == 60

Min(a, b) == IF a < b THEN a ELSE b
Max(a, b) == IF a > b THEN a ELSE b

(***************************************************************************)
(* Values.                                                                 *)
(***************************************************************************)
NoneVal == "<None>"
DefaultMarker == "[[SIGN_HERE]]"

Ok(v) == [ok |-> TRUE, val |-> v, err |-> ""]
Raise(e) == [ok |-> FALSE, val |-> <<>>, err |-> e]

\* One operation of a page's content stream.
Op(kind, x0, y0, x1, y1, color, text) ==
    [op |-> kind, x0 |-> x0, y0 |-> y0, x1 |-> x1, y1 |-> y1,
     color |-> color, text |-> text]

TextItem(str, x0, y0, x1, y1) == Op("text", x0, y0, x1, y1, "black", str)

Page(w, h, contents) == [w |-> w, h |-> h, contents |-> contents]

Pdf(pages) == [valid |-> TRUE, pages |-> pages]

\* Bytes that are not a PDF (also the content of a file nothing was written to).
NotAPdf == [valid |-> FALSE, pages |-> <<>>]

\* class SignPosition: width and height always present (default 100).
SignPosition(x, y, page, width, height) ==
    [kind |-> "obj", has |-> {"x", "y", "page", "width", "height"},
     x |-> x, y |-> y, page |-> page, width |-> width, height |-> height]

\* A JSON object element of positions_json; has is the set of keys it carries.
Dict(has, x, y, page, width, height) ==
    [kind |-> "dict", has |-> has,
     x |-> IF "x" \in has THEN x ELSE 0,
     y |-> IF "y" \in has THEN y ELSE 0,
     page |-> IF "page" \in has THEN page ELSE 0,
     width |-> IF "width" \in has THEN width ELSE 0,
     height |-> IF "height" \in has THEN height ELSE 0]

\* A JSON element that is no object (a number, or a key/character met when
\* iterating an object or a string).
Scalar == [kind |-> "scalar", has |-> {}, x |-> 0, y |-> 0, page |-> 0,
           width |-> 0, height |-> 0]

\* A Python list of positions.
PyList(items) == [kind |-> "list", items |-> items]

(***************************************************************************)
(* json.loads(positions_json).  The text is represented by its syntax      *)
(* tree [kind, items]: "invalid" is no JSON, "number" a JSON number or     *)
(* null, "object" a JSON object with Len(items) keys, "list" a JSON array. *)
(***************************************************************************)
json_loads(positions_json) ==
    IF positions_json.kind = "invalid"
    THEN Raise("JSONDecodeError")
    ELSE Ok(positions_json)

\* `for pos in positions`: a list yields its elements, a dict its keys,
\* anything else is not iterable.
Iterate(positions) ==
    CASE positions.kind = "list" -> Ok(positions.items)
      [] positions.kind = "object" ->
            Ok([i \in 1..Len(positions.items) |-> Scalar])
      [] OTHER -> Raise("TypeError")

(***************************************************************************)
(* find_marker_positions                                                   *)
(***************************************************************************)
\* fitz.open(stream=pdf_data, filetype="pdf")
fitz_open(pdf_data) ==
    IF pdf_data.valid THEN Ok(pdf_data) ELSE Raise("FileDataError")

\* page.search_for(marker): the rectangles of the text of the content
\* stream that matches, in content order.  Painted rectangles and images
\* are not text and do not take part.
search_for(page, marker) ==
    SelectSeq(page.contents, LAMBDA o : o.op = "text" /\ o.text = marker)

\* Mutant: only the first match of a page is reported.
PagePositions_FirstOnly(page, page_num, marker) ==
    LET text_instances == search_for(page, marker)
    IN  [i \in 1..Min(1, Len(text_instances)) |->
            SignPosition(text_instances[i].x0, text_instances[i].y0, page_num,
                         text_instances[i].x1 - text_instances[i].x0,
                         text_instances[i].y1 - text_instances[i].y0)]

PagePositions(page, page_num, marker) ==
    LET text_instances == search_for(page, marker)
    IN  [i \in 1..Len(text_instances) |->
            SignPosition(text_instances[i].x0, text_instances[i].y0, page_num,
                         text_instances[i].x1 - text_instances[i].x0,
                         text_instances[i].y1 - text_instances[i].y0)]

RECURSIVE FindFrom(_, _, _)
FindFrom(doc, marker, page_num) ==
    IF page_num >= Len(doc.pages)
    THEN <<>>
    ELSE PagePositions(doc.pages[page_num + 1], page_num, marker)
            \o FindFrom(doc, marker, page_num + 1)

find_marker_positions(pdf_data, marker) ==
    LET doc == fitz_open(pdf_data)
    IN  IF ~doc.ok THEN doc ELSE Ok(FindFrom(doc.val, marker, 0))

(***************************************************************************)
(* add_qr_to_pdf                                                           *)
(***************************************************************************)
\* qr.add_data(qr_data); qr.make(fit=True): the payload is a record
\* [payload, fits]; fits is FALSE for a payload longer than the largest QR
\* symbol holds at error-correction level H, for which make raises.
qr_make(qr_data) ==
    IF qr_data.fits THEN Ok(qr_data.payload) ELSE Raise("DataOverflowError")

\* pos.get(key, default) of a dict element.
Get(pos, key, default) ==
    IF key \in pos.has
    THEN CASE key = "x" -> pos.x
           [] key = "y" -> pos.y
           [] key = "page" -> pos.page
           [] key = "width" -> pos.width
           [] OTHER -> pos.height
    ELSE default

\* The fields the loop reads from one element of positions: a SignPosition
\* has the attribute page; a dict is read with get and defaults; anything
\* else has neither the attribute nor get.
ReadPos(pos) ==
    CASE pos.kind = "obj" ->
            Ok([page_num |-> pos.page, x |-> pos.x, y |-> pos.y,
                width |-> pos.width, height |-> pos.height])
      [] pos.kind = "dict" ->
            Ok([page_num |-> Get(pos, "page", 0), x |-> Get(pos, "x", 50),
                y |-> Get(pos, "y", 50), width |-> Get(pos, "width", 120),
                height |-> Get(pos, "height", 120)])
      [] OTHER -> Raise("AttributeError")

\* doc[page_num]: the index (from 1) of the page in doc.pages.  An index at
\* or past page_count raises; a negative one counts from the end.
PageIndex(doc, page_num) ==
    IF page_num >= Len(doc.pages)
    THEN Raise("IndexError")
    ELSE Ok((page_num % Len(doc.pages)) + 1)

\* marker_rect = fitz.Rect(x, y, x + width, y + height), painted white.
marker_rect(x, y, width, height) ==
    Op("rect", x, y, x + width, y + height, "white", "")

\* Mutant: the left margin is not enforced.
adjusted_x_NoFloor(x, page_width) ==
    Min(x + 10, page_width - qr_size - 10)

adjusted_x(x, page_width) ==
    LET first == Min(x + 10, page_width - qr_size - 10)
    IN  Max(10, Min(first, page_width - qr_size - 10))

\* Mutant: no room is left below the QR box.
adjusted_y_SmallMargin(y, page_height) ==
    Max(10, Min(y - 30, page_height - qr_size - 10))

adjusted_y(y, page_height) ==
    LET first == y - 30
    IN  Max(10, Min(first, page_height - qr_size - 40))

\* The shadow rectangle.
shadow_rect(ax, ay) ==
    Op("rect", ax - 2, ay - 2, ax + qr_size + 4, ay + qr_size + 4, "gray", "")

\* The white background of the QR box.
background_rect(ax, ay) ==
    Op("rect", ax, ay, ax + qr_size, ay + qr_size, "white", "")

\* page.insert_image of the QR bitmap into the QR box.
qr_image(ax, ay, img) ==
    Op("image", ax, ay, ax + qr_size, ay + qr_size, "qr", img)

\* `if certificate_id:` is false for None and for the empty string.
Truthy(certificate_id) == certificate_id \notin {NoneVal, ""}

\* page.insert_text(point, text): the text joins the content stream at its
\* insertion point (the extent of the glyphs is not modelled).
insert_text(px, py, text, color) == Op("text", px, py, px, py, color, text)

certificate_text(ax, ay, certificate_id) ==
    LET text_y == ay + qr_size + 2
    IN  IF Truthy(certificate_id)
        THEN << insert_text(ax, text_y, "Verified Document", "blue"),
                insert_text(ax, text_y + 10, certificate_id, "black") >>
        ELSE <<>>

\* Mutant: the QR image is painted first and then covered.
StampPage_ImageFirst(page, p, img, certificate_id) ==
    LET ax == adjusted_x(p.x, page.w)
        ay == adjusted_y(p.y, page.h)
    IN  [page EXCEPT !.contents =
            @ \o << marker_rect(p.x, p.y, p.width, p.height),
                    qr_image(ax, ay, img),
                    shadow_rect(ax, ay),
                    background_rect(ax, ay) >>
              \o certificate_text(ax, ay, certificate_id)]

\* The body of the loop for one position on its page, in paint order.
StampPage(page, p, img, certificate_id) ==
    LET ax == adjusted_x(p.x, page.w)
        ay == adjusted_y(p.y, page.h)
    IN  [page EXCEPT !.contents =
            @ \o << marker_rect(p.x, p.y, p.width, p.height),
                    shadow_rect(ax, ay),
                    background_rect(ax, ay),
                    qr_image(ax, ay, img) >>
              \o certificate_text(ax, ay, certificate_id)]

\* One iteration of `for pos in positions`.
StampOne(doc, pos, img, certificate_id) ==
    LET p == ReadPos(pos)
    IN  IF ~p.ok THEN p
        ELSE LET i == PageIndex(doc, p.val.page_num)
             IN  IF ~i.ok THEN i
                 ELSE Ok([doc EXCEPT !.pages[i.val] =
                            StampPage(@, p.val, img, certificate_id)])

\* Mutant: a position that cannot be drawn is skipped.
RECURSIVE StampFrom_SkipBad(_, _, _, _, _)
StampFrom_SkipBad(doc, items, k, img, certificate_id) ==
    IF k > Len(items)
    THEN Ok(doc)
    ELSE LET one == StampOne(doc, items[k], img, certificate_id)
         IN  StampFrom_SkipBad(IF one.ok THEN one.val ELSE doc, items, k + 1,
                               img, certificate_id)

RECURSIVE StampFrom(_, _, _, _, _)
StampFrom(doc, items, k, img, certificate_id) ==
    IF k > Len(items)
    THEN Ok(doc)
    ELSE LET one == StampOne(doc, items[k], img, certificate_id)
         IN  IF ~one.ok THEN one
             ELSE StampFrom(one.val, items, k + 1, img, certificate_id)

\* Mutant: an empty list of positions is refused.
add_qr_to_pdf_RejectEmpty(pdf_data, positions, qr_data, certificate_id) ==
    LET doc == fitz_open(pdf_data)
        img == qr_make(qr_data)
        items == Iterate(positions)
    IN  CASE ~doc.ok -> doc
          [] ~img.ok -> img
          [] ~items.ok -> items
          [] items.val = <<>> -> Raise("ValueError")
          [] OTHER -> StampFrom(doc.val, items.val, 1, img.val, certificate_id)

\* doc.save(...): the bytes of the document as it stands.
add_qr_to_pdf(pdf_data, positions, qr_data, certificate_id) ==
    LET doc == fitz_open(pdf_data)
        img == qr_make(qr_data)
        items == Iterate(positions)
    IN  CASE ~doc.ok -> doc
          [] ~img.ok -> img
          [] ~items.ok -> items
          [] OTHER -> StampFrom(doc.val, items.val, 1, img.val, certificate_id)

(***************************************************************************)
(* Requests, responses and temporary files.                                *)
(***************************************************************************)
Reqs == 1..NumReqs

\* The names tempfile may give to a file.
TempNames == 1..NumReqs

NoPath == 0

NoResp ==
    [status |-> 0, kind |-> "none", positions |-> <<>>, msg |-> <<>>,
     path |-> NoPath, filename |-> <<>>, body |-> NotAPdf]

\* return {"positions": positions}
PositionsResponse(positions) ==
    [NoResp EXCEPT !.status = 200, !.kind = "positions",
                   !.positions = positions]

\* raise HTTPException(status_code=500, detail=f"{prefix}{str(e)}")
HTTPException(prefix, e) ==
    [NoResp EXCEPT !.status = 500, !.kind = "exception", !.msg = <<prefix, e>>]

\* Mutant: the message does not name the marker.
NotFoundResponse_NoMarker(marker) ==
    [NoResp EXCEPT !.status = 404, !.kind = "error",
                   !.msg = <<"No marker found in the document">>]

\* JSONResponse(status_code=404, content={"error": f"No marker '{marker}' ..."})
NotFoundResponse(marker) ==
    [NoResp EXCEPT !.status = 404, !.kind = "error",
                   !.msg = <<"No marker '", marker, "' found in the document">>]

\* FileResponse(temp_path, media_type="application/pdf", filename=...)
FileResponse(temp_path, filename) ==
    [NoResp EXCEPT !.status = 200, !.kind = "file", !.path = temp_path,
                   !.filename = <<"signed_", filename>>]

\* return {"message": "Regex-based detection not implemented yet"}
StubResponse ==
    [NoResp EXCEPT !.status = 200, !.kind = "stub",
                   !.msg = <<"Regex-based detection not implemented yet">>]

\* Mutant: the name may be that of a file that exists.
NamedTemporaryFile_AnyName(files) == TempNames

\* tempfile.NamedTemporaryFile(delete=False): the names it may pick, given
\* the files that exist; it never takes the name of an existing file.
NamedTemporaryFile(files) == {n \in TempNames : n \notin DOMAIN files}

\* The filesystem after the bytes data are stored under name.
WriteFile(files, name, data) ==
    [n \in DOMAIN files \cup {name} |-> IF n = name THEN data ELSE files[n]]

\* A request as received: its form fields, and the handler's progress.
Request(ep, file, marker, positions_json, qr_data, certificate_id) ==
    [ep |-> ep, file |-> file, filename |-> "doc.pdf", marker |-> marker,
     positions_json |-> positions_json, qr_data |-> qr_data,
     certificate_id |-> certificate_id,
     pc |-> "start", positions |-> PyList(<<>>), temp_path |-> NoPath,
     calls |-> <<>>, resp |-> NoResp]

(***************************************************************************)
(* detect_sign_positions                                                   *)
(***************************************************************************)
detect_sign_positions(req) ==
    LET positions == find_marker_positions(req.file, req.marker)
    IN  IF positions.ok
        THEN PositionsResponse(positions.val)
        ELSE HTTPException("Error processing PDF: ", positions.err)

DetectSignPositions(r) ==
    /\ reqs[r].ep = "detect"
    /\ reqs[r].pc = "start"
    /\ reqs' = [reqs EXCEPT ![r].resp = detect_sign_positions(reqs[r]),
                            ![r].pc = "done"]
    /\ UNCHANGED fs

(***************************************************************************)
(* detect_with_regex                                                       *)
(***************************************************************************)
DetectWithRegex(r) ==
    /\ reqs[r].ep = "regex"
    /\ reqs[r].pc = "start"
    /\ reqs' = [reqs EXCEPT ![r].resp = StubResponse, ![r].pc = "done"]
    /\ UNCHANGED fs

(***************************************************************************)
(* add_qr_codes                                                            *)
(***************************************************************************)
\* Lines 62-71: parse the positions, read the upload, create the temporary
\* file.
AddQrCodesCreate(r) ==
    /\ reqs[r].ep = "add"
    /\ reqs[r].pc = "start"
    /\ LET positions == json_loads(reqs[r].positions_json)
       IN  IF ~positions.ok
           THEN /\ reqs' = [reqs EXCEPT
                      ![r].resp = HTTPException("Error adding QR codes: ",
                                                positions.err),
                      ![r].pc = "done"]
                /\ UNCHANGED fs
           ELSE \E temp_path \in NamedTemporaryFile(fs) :
                  /\ fs' = WriteFile(fs, temp_path, NotAPdf)
                  /\ reqs' = [reqs EXCEPT ![r].positions = positions.val,
                                          ![r].temp_path = temp_path,
                                          ![r].pc = "compose"]

\* Lines 73-87: compose, write the result to the temporary file, answer.
AddQrCodesCompose(r) ==
    /\ reqs[r].ep = "add"
    /\ reqs[r].pc = "compose"
    /\ LET req == reqs[r]
           modified_pdf == add_qr_to_pdf(req.file, req.positions, req.qr_data,
                                         req.certificate_id)
           called == Append(req.calls, req.positions)
       IN  IF ~modified_pdf.ok
           THEN /\ reqs' = [reqs EXCEPT
                      ![r].resp = HTTPException("Error adding QR codes: ",
                                                modified_pdf.err),
                      ![r].calls = called,
                      ![r].pc = "done"]
                /\ UNCHANGED fs
           ELSE /\ fs' = WriteFile(fs, req.temp_path, modified_pdf.val)
                /\ reqs' = [reqs EXCEPT
                      ![r].resp = FileResponse(req.temp_path, req.filename),
                      ![r].calls = called,
                      ![r].pc = "send"]

(***************************************************************************)
(* detect_and_add_qr                                                       *)
(***************************************************************************)
\* Lines 231-245: what the handler has decided before it creates a file:
\* a response, or the composed PDF to write and send.
detect_and_add_qr(req) ==
    LET positions == find_marker_positions(req.file, req.marker)
        located == PyList(positions.val)
        modified_pdf == add_qr_to_pdf(req.file, located, req.qr_data,
                                      req.certificate_id)
    IN  CASE ~positions.ok ->
                [send |-> FALSE, calls |-> <<>>, pdf |-> NotAPdf,
                 resp |-> HTTPException("Error processing PDF: ",
                                        positions.err)]
          [] positions.val = <<>> ->
                [send |-> FALSE, calls |-> <<>>, pdf |-> NotAPdf,
                 resp |-> NotFoundResponse(req.marker)]
          [] ~modified_pdf.ok ->
                [send |-> FALSE, calls |-> <<located>>, pdf |-> NotAPdf,
                 resp |-> HTTPException("Error processing PDF: ",
                                        modified_pdf.err)]
          [] OTHER ->
                [send |-> TRUE, calls |-> <<located>>,
                 pdf |-> modified_pdf.val, resp |-> NoResp]

\* Lines 231-257: the handler up to its return.
DetectAndAddQr(r) ==
    /\ reqs[r].ep = "detect_add"
    /\ reqs[r].pc = "start"
    /\ LET out == detect_and_add_qr(reqs[r])
       IN  IF ~out.send
           THEN /\ reqs' = [reqs EXCEPT ![r].resp = out.resp,
                                        ![r].calls = out.calls,
                                        ![r].pc = "done"]
                /\ UNCHANGED fs
           ELSE \E temp_path \in NamedTemporaryFile(fs) :
                  /\ fs' = WriteFile(fs, temp_path, out.pdf)
                  /\ reqs' = [reqs EXCEPT
                        ![r].resp = FileResponse(temp_path, reqs[r].filename),
                        ![r].calls = out.calls,
                        ![r].temp_path = temp_path,
                        ![r].pc = "send"]

(***************************************************************************)
(* The framework sends a FileResponse: the body is the file's content when *)
(* it is sent.  Nothing in the program removes the file.                   *)
(***************************************************************************)
SendFile(r) ==
    /\ reqs[r].pc = "send"
    /\ reqs' = [reqs EXCEPT ![r].resp.body = fs[reqs[r].resp.path],
                            ![r].pc = "done"]
    /\ UNCHANGED fs

(***************************************************************************)
(* The requests the service is given.                                      *)
(***************************************************************************)
AllKeys == {"x", "y", "page", "width", "height"}

GoodQr == [payload |-> "https://verify.example/cert/123", fits |-> TRUE]
OtherQr == [payload |-> "https://verify.example/cert/456", fits |-> TRUE]
OverlongQr == [payload |-> "overlong", fits |-> FALSE]

InvalidJson == [kind |-> "invalid", items |-> <<>>]
JsonNumber == [kind |-> "number", items |-> <<>>]
JsonObject(n) == [kind |-> "object", items |-> [i \in 1..n |-> Scalar]]

\* Text found on a page, in content-stream order.
Text0 == <<>>
Text1 == << TextItem(DefaultMarker, 50, 50, 130, 62) >>
Text2 == << TextItem(DefaultMarker, 20, 270, 110, 284),
            TextItem("[[STAMP]]", 50, 50, 120, 62),
            TextItem(DefaultMarker, 50, 50, 130, 62) >>
Text3 == << TextItem("Hello", 50, 50, 90, 62) >>
PageTexts == {Text0, Text1, Text2, Text3}

SeqsUpTo(S, n) == UNION {[1..k -> S] : k \in 0..n}

\* Documents of 1..MaxPages pages of 200 x 300 units.
TextDocs ==
    {Pdf([i \in 1..Len(ts) |-> Page(200, 300, ts[i])]) :
        ts \in SeqsUpTo(PageTexts, MaxPages) \ {<<>>}}

Markers == {DefaultMarker, "[[STAMP]]", "[[ABSENT]]"}

\* Requests to the locating endpoints.
LocatorInputs ==
    {Request("detect", d, m, InvalidJson, GoodQr, NoneVal) :
        d \in TextDocs \cup {NotAPdf}, m \in Markers}
    \cup
    {Request("regex", d, DefaultMarker, InvalidJson, GoodQr, NoneVal) :
        d \in {NotAPdf, Pdf(<<Page(200, 300, Text1)>>)}}
    \cup
    {Request("detect_add", d, m, InvalidJson, q, c) :
        d \in TextDocs \cup {NotAPdf}, m \in Markers,
        q \in {GoodQr, OverlongQr}, c \in {NoneVal, "", "CERT-123"}}

\* Page sizes from the smallest the clamp is stated for upwards.
PageSizes == {<<80, 120>>, <<81, 121>>, <<200, 300>>, <<595, 842>>}

\* Coordinates around every threshold of the clamp of a page extent e, on
\* the edges, outside the page and negative.
EdgeCoords(e) ==
    {-1000, -1, 0, 1, 39, 40, 41, e - 101, e - 100, e - 81, e - 80, e - 79,
     e - 71, e - 70, e - 69, e - 1, e, e + 1, e + 1000}

\* Requests to add-qr-codes with one position anywhere on or off a page.
GeometryInputs ==
    UNION {
      {Request("add", Pdf(<<Page(s[1], s[2], Text0)>>), DefaultMarker,
               PyList(<<Dict(has, x, y, 0, 80, 12)>>), GoodQr, c) :
          x \in EdgeCoords(s[1]), y \in EdgeCoords(s[2]),
          has \in {AllKeys, {"x", "y", "page"}}, c \in {NoneVal, "CERT-123"}}
      : s \in PageSizes}

\* Elements of a positions list: records on pages 0 and 1, on the last page
\* counted from the end, past the last page, without any key, and a number.
ElemChoices ==
    {Dict(AllKeys, 50, 50, 0, 80, 12),
     Dict({"x", "y", "page"}, 100, 100, 1, 0, 0),
     Dict({"x", "y", "page"}, 20, 20, -1, 0, 0),
     Dict({"x", "y", "page"}, 20, 20, MaxPages, 0, 0),
     Dict({}, 0, 0, 0, 0, 0),
     Scalar}

\* Requests to add-qr-codes with well-formed and malformed uploads.
ErrorInputs ==
    {Request("add", d, DefaultMarker, pj, q, c) :
        d \in {NotAPdf, Pdf(<<Page(200, 300, Text1)>>),
               Pdf(<<Page(200, 300, Text2), Page(200, 300, Text1)>>)},
        pj \in {InvalidJson, JsonNumber, JsonObject(0), JsonObject(1)}
               \cup {PyList(items) : items \in SeqsUpTo(ElemChoices, MaxPos)},
        q \in {GoodQr, OverlongQr}, c \in {NoneVal, "CERT-123"}}

WideInputs == LocatorInputs \cup GeometryInputs \cup ErrorInputs

\* The requests that run concurrently.
DocA == Pdf(<<Page(200, 300, Text1)>>)
DocB == Pdf(<<Page(200, 300, Text2), Page(200, 300, Text1)>>)

SmallInputs ==
    {Request("add", DocA, DefaultMarker,
             PyList(<<Dict(AllKeys, 50, 50, 0, 80, 12)>>), GoodQr, "CERT-123"),
     Request("add", DocB, DefaultMarker,
             PyList(<<Dict({"x", "y", "page"}, 100, 100, 1, 0, 0)>>),
             OtherQr, NoneVal),
     Request("add", NotAPdf, DefaultMarker, PyList(<<>>), GoodQr, NoneVal),
     Request("add", DocA, DefaultMarker, InvalidJson, GoodQr, NoneVal),
     Request("detect_add", DocA, DefaultMarker, InvalidJson, GoodQr, NoneVal),
     Request("detect_add", DocB, DefaultMarker, InvalidJson, OtherQr,
             "CERT-123"),
     Request("detect_add", DocA, "[[ABSENT]]", InvalidJson, GoodQr, NoneVal),
     Request("detect", DocB, DefaultMarker, InvalidJson, GoodQr, NoneVal),
     Request("regex", DocA, DefaultMarker, InvalidJson, GoodQr, NoneVal)}

(***************************************************************************)
(* Specifications.  Spec: NumReqs requests handled concurrently.  SpecWide:*)
(* one request drawn from the wide input sets.                             *)
(***************************************************************************)
Init ==
    /\ reqs \in [Reqs -> SmallInputs]
    /\ fs = <<>>

InitWide ==
    /\ reqs \in [{1} -> WideInputs]
    /\ fs = <<>>

Next ==
    \/ \E r \in DOMAIN reqs : DetectSignPositions(r)
    \/ \E r \in DOMAIN reqs : DetectWithRegex(r)
    \/ \E r \in DOMAIN reqs : AddQrCodesCreate(r)
    \/ \E r \in DOMAIN reqs : AddQrCodesCompose(r)
    \/ \E r \in DOMAIN reqs : DetectAndAddQr(r)
    \/ \E r \in DOMAIN reqs : SendFile(r)

Spec == Init /\ [][Next]_vars

SpecWide == InitWide /\ [][Next]_vars

(***************************************************************************)
(* Properties.                                                             *)
(***************************************************************************)
Done(r) == reqs[r].pc = "done"

\* The request was answered with the PDF file.
SentPdf(r) ==
    /\ Done(r)
    /\ reqs[r].resp.status = 200
    /\ reqs[r].resp.kind = "file"

\* The request was answered with a status-500 exception and no PDF.
Failed(r) ==
    /\ reqs[r].resp.status = 500
    /\ reqs[r].resp.kind = "exception"
    /\ reqs[r].resp.path = NoPath
    /\ reqs[r].resp.body = NotAPdf

\* The positions the Locator returns for a request's upload and marker.
Located(req) == find_marker_positions(req.file, req.marker).val

\* The matches the text search reports on page k (from 1) of a document.
Matches(doc, k, marker) == search_for(doc.pages[k], marker)

\* The entries of a positions list that lie on page index p.
OnPage(positions, p) == SelectSeq(positions, LAMBDA q : q.page = p)

\* The places <<page, index>> of the QR images in a document.
Images(doc) ==
    {pi \in UNION {{<<k, i>> : i \in 1..Len(doc.pages[k].contents)} :
                      k \in 1..Len(doc.pages)} :
        doc.pages[pi[1]].contents[pi[2]].op = "image"}

\* C4: find_marker_positions returns one SignPosition per match of the
\* per-page text search: as many positions as matches, ordered by page and
\* within a page in search order, each page index within [0, page_count),
\* x, y, width, height those of the match rectangle; with no match the
\* detect-sign-positions endpoint answers 200 with an empty list.
C4_OnePositionPerMatch ==
    \A r \in DOMAIN reqs :
        (Done(r) /\ reqs[r].ep = "detect" /\ reqs[r].file.valid) =>
            LET doc == reqs[r].file
                m == reqs[r].marker
                P == reqs[r].resp.positions
                n == Len(doc.pages)
            IN  /\ reqs[r].resp.status = 200
                /\ reqs[r].resp.kind = "positions"
                /\ Len(P) = Cardinality(
                       {ki \in UNION {{<<k, i>> :
                                          i \in 1..Len(doc.pages[k].contents)} :
                                      k \in 1..n} :
                           /\ doc.pages[ki[1]].contents[ki[2]].op = "text"
                           /\ doc.pages[ki[1]].contents[ki[2]].text = m})
                /\ \A j \in 1..Len(P) : P[j].page \in 0..(n - 1)
                /\ \A i, j \in 1..Len(P) : i < j => P[i].page <= P[j].page
                /\ \A k \in 1..n :
                      LET here == OnPage(P, k - 1)
                          found == Matches(doc, k, m)
                      IN  /\ Len(here) = Len(found)
                          /\ \A i \in 1..Len(here) :
                                /\ here[i].x = found[i].x0
                                /\ here[i].y = found[i].y0
                                /\ here[i].width = found[i].x1 - found[i].x0
                                /\ here[i].height = found[i].y1 - found[i].y0

C4_Witness ==
    \E r \in DOMAIN reqs :
        /\ Done(r) /\ reqs[r].ep = "detect"
        /\ Len(reqs[r].resp.positions) >= 3
        /\ reqs[r].resp.positions[1].page = 0
        /\ reqs[r].resp.positions[1].y > reqs[r].resp.positions[2].y
        /\ reqs[r].resp.positions[3].page = 1

\* C1 (as stated): in detect-and-add-qr, zero positions give a 404 whose
\* message contains the marker, no Compositor call and no temporary file;
\* at least one position gives exactly one Compositor call with the located
\* positions and the PDF as the response.
C1_Original ==
    \A r \in DOMAIN reqs :
        (Done(r) /\ reqs[r].ep = "detect_add" /\ reqs[r].file.valid) =>
            IF Located(reqs[r]) = <<>>
            THEN /\ reqs[r].resp.status = 404
                 /\ reqs[r].resp.kind = "error"
                 /\ \E i \in 1..Len(reqs[r].resp.msg) :
                        reqs[r].resp.msg[i] = reqs[r].marker
                 /\ reqs[r].calls = <<>>
                 /\ reqs[r].temp_path = NoPath
                 /\ DOMAIN fs = {}
            ELSE /\ reqs[r].calls = << PyList(Located(reqs[r])) >>
                 /\ reqs[r].resp.status # 404
                 /\ reqs[r].resp.status = 200
                 /\ reqs[r].resp.kind = "file"

\* C1 (amended): as C1, except that with at least one position the response
\* is the PDF when the Compositor returns and a status 500 when the
\* Compositor raises (the QR payload does not fit); it is never a 404.
C1_LocateThenCompose ==
    \A r \in DOMAIN reqs :
        (Done(r) /\ reqs[r].ep = "detect_add" /\ reqs[r].file.valid) =>
            IF Located(reqs[r]) = <<>>
            THEN /\ reqs[r].resp.status = 404
                 /\ reqs[r].resp.kind = "error"
                 /\ \E i \in 1..Len(reqs[r].resp.msg) :
                        reqs[r].resp.msg[i] = reqs[r].marker
                 /\ reqs[r].calls = <<>>
                 /\ reqs[r].temp_path = NoPath
                 /\ DOMAIN fs = {}
            ELSE /\ reqs[r].calls = << PyList(Located(reqs[r])) >>
                 /\ reqs[r].resp.status # 404
                 /\ IF reqs[r].qr_data.fits
                    THEN /\ reqs[r].resp.status = 200
                         /\ reqs[r].resp.kind = "file"
                         /\ Images(reqs[r].resp.body) # {}
                    ELSE Failed(r)

C1_Witness ==
    \E r \in DOMAIN reqs :
        /\ SentPdf(r) /\ reqs[r].ep = "detect_add"
        /\ Len(Located(reqs[r])) >= 2
        /\ Len(reqs[r].calls) = 1

\* C10 (as stated): add-qr-codes never answers 404 and, for a parseable PDF
\* and an empty positions list, answers with the PDF with nothing drawn on
\* any page; detect-and-add-qr on a document without positions answers 404.
C10_Original ==
    \A r \in DOMAIN reqs :
        Done(r) =>
            /\ reqs[r].ep = "add" => reqs[r].resp.status # 404
            /\ (/\ reqs[r].ep = "add" /\ reqs[r].file.valid
                /\ reqs[r].positions_json = PyList(<<>>)) =>
                    /\ SentPdf(r)
                    /\ reqs[r].resp.body = reqs[r].file
            /\ (/\ reqs[r].ep = "detect_add" /\ reqs[r].file.valid
                /\ Located(reqs[r]) = <<>>) => reqs[r].resp.status = 404

\* C10 (amended): as C10, for a qr_data that fits a QR code; with a qr_data
\* that does not fit, add-qr-codes answers 500 even for an empty list.
C10_EmptyListAccepted ==
    \A r \in DOMAIN reqs :
        Done(r) =>
            /\ reqs[r].ep = "add" => reqs[r].resp.status # 404
            /\ (/\ reqs[r].ep = "add" /\ reqs[r].file.valid
                /\ reqs[r].positions_json = PyList(<<>>)) =>
                    IF reqs[r].qr_data.fits
                    THEN /\ SentPdf(r)
                         /\ reqs[r].resp.body = reqs[r].file
                    ELSE Failed(r)
            /\ (/\ reqs[r].ep = "detect_add" /\ reqs[r].file.valid
                /\ Located(reqs[r]) = <<>>) => reqs[r].resp.status = 404

C10_Witness ==
    \E r \in DOMAIN reqs :
        /\ SentPdf(r) /\ reqs[r].ep = "add"
        /\ reqs[r].positions_json = PyList(<<>>)
        /\ Len(reqs[r].file.pages) = 2
        /\ reqs[r].resp.body = reqs[r].file

\* The elements of a parsed positions_json read as a list (none if it is
\* not one).
ListItems(pj) == IF pj.kind = "list" THEN pj.items ELSE <<>>

\* The failures of a request that raise an exception, by the text of the
\* exception: an unparseable PDF, invalid JSON, a QR payload that does not
\* fit, a positions value that cannot be iterated, an element that is no
\* JSON object, a page index at or past the page count.
Failures(req) ==
    (IF req.ep \in {"detect", "add", "detect_add"} /\ ~req.file.valid
     THEN {"FileDataError"} ELSE {})
    \cup
    (IF req.ep = "detect_add" /\ req.file.valid /\ Located(req) # <<>>
        /\ ~req.qr_data.fits
     THEN {"DataOverflowError"} ELSE {})
    \cup
    (IF req.ep = "add"
     THEN (IF req.positions_json.kind = "invalid"
           THEN {"JSONDecodeError"} ELSE {})
          \cup (IF ~req.qr_data.fits THEN {"DataOverflowError"} ELSE {})
          \cup (IF req.positions_json.kind = "number"
                THEN {"TypeError"} ELSE {})
          \cup (IF \/ /\ req.positions_json.kind = "object"
                      /\ req.positions_json.items # <<>>
                   \/ \E i \in 1..Len(ListItems(req.positions_json)) :
                         ListItems(req.positions_json)[i].kind # "dict"
                THEN {"AttributeError"} ELSE {})
          \cup (IF \E i \in 1..Len(ListItems(req.positions_json)) :
                      /\ ListItems(req.positions_json)[i].kind = "dict"
                      /\ ListItems(req.positions_json)[i].page
                            >= Len(req.file.pages)
                THEN {"IndexError"} ELSE {})
     ELSE {})

\* The failures C5 lists: those above, and also any positions_json that is
\* not a list of records and any page index outside [0, page_count).
ListedFailure(req) ==
    \/ Failures(req) # {}
    \/ /\ req.ep = "add"
       /\ \/ req.positions_json.kind # "list"
          \/ \E i \in 1..Len(ListItems(req.positions_json)) :
                \/ ListItems(req.positions_json)[i].kind # "dict"
                \/ ListItems(req.positions_json)[i].page
                      \notin 0..(Len(req.file.pages) - 1)

\* C5 (as stated): every listed failure gives a status 500 whose message
\* includes the failure text, and no PDF.
C5_Original ==
    \A r \in DOMAIN reqs :
        (Done(r) /\ ListedFailure(reqs[r])) =>
            /\ Failed(r)
            /\ Len(reqs[r].resp.msg) = 2

\* C5 (amended): every failure that raises an exception (unparseable PDF,
\* invalid JSON, a positions value that is not iterable or has an element
\* that is not a record, a page index at or past the page count, QR failure)
\* gives a status 500 whose message ends with the text of one of the
\* request's failures, and no PDF, also when earlier positions of the list
\* were drawn.
C5_FailuresAre500 ==
    \A r \in DOMAIN reqs :
        (Done(r) /\ Failures(reqs[r]) # {}) =>
            /\ Failed(r)
            /\ Len(reqs[r].resp.msg) = 2
            /\ reqs[r].resp.msg[1] \in {"Error processing PDF: ",
                                        "Error adding QR codes: "}
            /\ reqs[r].resp.msg[2] \in Failures(reqs[r])
            /\ reqs[r].temp_path # NoPath => fs[reqs[r].temp_path] = NotAPdf

\* A list whose first position can be drawn and whose second cannot.
C5_Witness ==
    \E r \in DOMAIN reqs :
        /\ Done(r) /\ reqs[r].ep = "add"
        /\ reqs[r].file.valid /\ reqs[r].qr_data.fits
        /\ reqs[r].positions_json.kind = "list"
        /\ Len(reqs[r].positions_json.items) = 2
        /\ StampOne(reqs[r].file, reqs[r].positions_json.items[1], "img",
                    NoneVal).ok
        /\ reqs[r].positions_json.items[2].page >= Len(reqs[r].file.pages)
        /\ Failed(r)
        /\ reqs[r].resp.msg[2] = "IndexError"

\* The operation at place pi of a document, and the page it is on.
At(doc, pi) == doc.pages[pi[1]].contents[pi[2]]
PageOf(doc, pi) == doc.pages[pi[1]]

\* An add-qr-codes request whose upload parses, whose QR payload fits and
\* whose positions are records on pages of the document.
WellFormedAdd(req) ==
    /\ req.ep = "add"
    /\ req.file.valid
    /\ req.qr_data.fits
    /\ req.positions_json.kind = "list"
    /\ \A i \in 1..Len(req.positions_json.items) :
          /\ req.positions_json.items[i].kind = "dict"
          /\ req.positions_json.items[i].page \in 0..(Len(req.file.pages) - 1)

\* C2: on every page at least 80 x 120, for every position (on an edge,
\* outside the page, negative), the QR box drawn is 60 x 60 and lies within
\* [10, page_width - 10] x [10, page_height - 10]; the request is answered
\* with the PDF, not rejected.
C2_QrBoxInsideMargins ==
    \A r \in DOMAIN reqs :
        /\ (Done(r) /\ WellFormedAdd(reqs[r])) =>
              /\ SentPdf(r)
              /\ Cardinality(Images(reqs[r].resp.body))
                    = Len(reqs[r].positions_json.items)
        /\ SentPdf(r) =>
              \A pi \in Images(reqs[r].resp.body) :
                  LET box == At(reqs[r].resp.body, pi)
                      page == PageOf(reqs[r].resp.body, pi)
                  IN  (page.w >= 80 /\ page.h >= 120) =>
                          /\ box.x1 = box.x0 + 60
                          /\ box.y1 = box.y0 + 60
                          /\ 10 <= box.x0
                          /\ box.x1 <= page.w - 10
                          /\ 10 <= box.y0
                          /\ box.y1 <= page.h - 10

\* A position right of and above the page, drawn into the page's corner.
C2_Witness ==
    \E r \in DOMAIN reqs :
        /\ SentPdf(r) /\ reqs[r].ep = "add"
        /\ Len(reqs[r].positions_json.items) = 1
        /\ reqs[r].positions_json.items[1].x > reqs[r].file.pages[1].w
        /\ reqs[r].positions_json.items[1].y < 0
        /\ \E pi \in Images(reqs[r].resp.body) :
              /\ At(reqs[r].resp.body, pi).x1 = reqs[r].file.pages[1].w - 10
              /\ At(reqs[r].resp.body, pi).y0 = 10

\* C3 (as stated): with a certificate identifier the QR box and the 40-unit
\* text margin end at or above page_height - 10; the margin is reserved only
\* with a certificate, without one the box alone is held in the range.
C3_Original ==
    \A r \in DOMAIN reqs :
        SentPdf(r) =>
            \A pi \in Images(reqs[r].resp.body) :
                LET box == At(reqs[r].resp.body, pi)
                    page == PageOf(reqs[r].resp.body, pi)
                    p == reqs[r].positions_json.items[1]
                IN  (/\ reqs[r].ep = "add"
                     /\ Len(reqs[r].positions_json.items) = 1
                     /\ page.w >= 80 /\ page.h >= 120) =>
                      IF Truthy(reqs[r].certificate_id)
                      THEN box.y0 + 60 + 40 <= page.h - 10
                      ELSE box.y0 = Max(10, Min(Get(p, "y", 50) - 30,
                                                page.h - 70))

\* C3 (amended): with or without a certificate identifier the QR box
\* together with a 40-unit margin below it lies in [10, page_height]:
\* 10 <= adjusted_y and adjusted_y + 60 + 40 <= page_height, so adjusted_y
\* never exceeds page_height - 100; with a certificate the two text lines
\* start 2 and 12 units below the box, inside that margin.
C3_TextMarginBelowBox ==
    \A r \in DOMAIN reqs :
        SentPdf(r) =>
            \A pi \in Images(reqs[r].resp.body) :
                LET doc == reqs[r].resp.body
                    box == At(doc, pi)
                    page == PageOf(doc, pi)
                    after == [i \in 1..2 |->
                                IF pi[2] + i <= Len(page.contents)
                                THEN page.contents[pi[2] + i]
                                ELSE Op("end", 0, 0, 0, 0, "", "")]
                IN  (page.w >= 80 /\ page.h >= 120) =>
                      /\ 10 <= box.y0
                      /\ box.y0 + 60 + 40 <= page.h
                      /\ IF Truthy(reqs[r].certificate_id)
                         THEN /\ after[1].op = "text"
                              /\ after[1].y0 = box.y0 + 60 + 2
                              /\ after[2].op = "text"
                              /\ after[2].text = reqs[r].certificate_id
                              /\ after[2].y0 = box.y0 + 60 + 12
                              /\ after[2].y0 <= page.h
                         ELSE after[1].op # "text"

\* A marker at the bottom edge, with a certificate: the clamp is active.
C3_Witness ==
    \E r \in DOMAIN reqs :
        /\ SentPdf(r)
        /\ Truthy(reqs[r].certificate_id)
        /\ \E pi \in Images(reqs[r].resp.body) :
              /\ At(reqs[r].resp.body, pi).y0
                    = PageOf(reqs[r].resp.body, pi).h - 100
              /\ reqs[r].ep = "add"
              /\ reqs[r].positions_json.items[1].y
                    = PageOf(reqs[r].resp.body, pi).h

\* C9 (as stated): the gray shadow extends exactly 2 units beyond the QR box
\* on each of its four sides and is drawn before the white background,
\* which is drawn before the QR image, all after the white cover rectangle.
C9_Original ==
    \A r \in DOMAIN reqs :
        SentPdf(r) =>
            \A pi \in Images(reqs[r].resp.body) :
                LET c == PageOf(reqs[r].resp.body, pi).contents
                    i == pi[2]
                IN  /\ i >= 4
                    /\ c[i - 3].op = "rect" /\ c[i - 3].color = "white"
                    /\ c[i - 2].op = "rect" /\ c[i - 2].color = "gray"
                    /\ c[i - 2].x0 = c[i].x0 - 2
                    /\ c[i - 2].y0 = c[i].y0 - 2
                    /\ c[i - 2].x1 = c[i].x0 + 60 + 2
                    /\ c[i - 2].y1 = c[i].y0 + 60 + 2
                    /\ c[i - 1].op = "rect" /\ c[i - 1].color = "white"
                    /\ c[i - 1].x0 = c[i].x0 /\ c[i - 1].y0 = c[i].y0
                    /\ c[i - 1].x1 = c[i].x1 /\ c[i - 1].y1 = c[i].y1

\* C9 (amended): the gray shadow extends 2 units beyond the QR box on its
\* left and top sides and 4 units on its right and bottom sides, i.e. it is
\* [adjusted_x-2, adjusted_x+60+4] x [adjusted_y-2, adjusted_y+60+4]; the
\* paint order is cover rectangle, shadow, white background, QR image.
C9_ShadowAndPaintOrder ==
    \A r \in DOMAIN reqs :
        SentPdf(r) =>
            \A pi \in Images(reqs[r].resp.body) :
                LET c == PageOf(reqs[r].resp.body, pi).contents
                    i == pi[2]
                IN  /\ i >= 4
                    /\ c[i - 3].op = "rect" /\ c[i - 3].color = "white"
                    /\ c[i - 2].op = "rect" /\ c[i - 2].color = "gray"
                    /\ c[i - 2].x0 = c[i].x0 - 2
                    /\ c[i - 2].y0 = c[i].y0 - 2
                    /\ c[i - 2].x1 = c[i].x0 + 60 + 4
                    /\ c[i - 2].y1 = c[i].y0 + 60 + 4
                    /\ c[i - 1].op = "rect" /\ c[i - 1].color = "white"
                    /\ c[i - 1].x0 = c[i].x0 /\ c[i - 1].y0 = c[i].y0
                    /\ c[i - 1].x1 = c[i].x1 /\ c[i - 1].y1 = c[i].y1

\* Two positions stamped on the same page, each with its four operations.
C9_Witness ==
    \E r \in DOMAIN reqs :
        /\ SentPdf(r)
        /\ \E pi, pj \in Images(reqs[r].resp.body) :
              pi[1] = pj[1] /\ pi[2] < pj[2]

\* What a request composes when it runs alone: the Compositor applied to
\* its own upload, positions, qr_data and certificate_id.
Alone(req) ==
    add_qr_to_pdf(req.file,
                  IF req.ep = "add" THEN req.positions_json
                                    ELSE PyList(Located(req)),
                  req.qr_data, req.certificate_id)

\* C8: under any interleaving of concurrent requests, no two requests use
\* the same temporary file, and the PDF sent for a request is the output of
\* composing that request's own upload, positions, qr_data and
\* certificate_id, as if it ran alone.
C8_RequestsIsolated ==
    /\ \A r, q \in DOMAIN reqs :
          (r # q /\ reqs[r].temp_path # NoPath) =>
              reqs[r].temp_path # reqs[q].temp_path
    /\ \A r \in DOMAIN reqs :
          SentPdf(r) =>
              /\ Alone(reqs[r]).ok
              /\ reqs[r].resp.body = Alone(reqs[r]).val
              /\ reqs[r].resp.path = reqs[r].temp_path

\* Two requests with different uploads, both answered with their PDF.
C8_Witness ==
    \E r, q \in DOMAIN reqs :
        /\ r # q
        /\ SentPdf(r) /\ SentPdf(q)
        /\ reqs[r].ep = "add" /\ reqs[q].ep = "detect_add"
        /\ reqs[r].resp.body # reqs[q].resp.body

\* C7: no file outlives its request: once a request has completed, with a
\* PDF, a 404 or a 500, the temporary file it created has been removed.
C7_NoFileOutlivesRequest ==
    \A r \in DOMAIN reqs :
        Done(r) => reqs[r].temp_path \notin DOMAIN fs

\* C6: after detect-and-add-qr has composed the located positions, scanning
\* the resulting PDF with the same marker finds no match inside any of the
\* originally covered bounding boxes.
C6_ErasureRoundTrip ==
    \A r \in DOMAIN reqs :
        (SentPdf(r) /\ reqs[r].ep = "detect_add") =>
            LET before == Located(reqs[r])
                after == find_marker_positions(reqs[r].resp.body,
                                               reqs[r].marker).val
            IN  \A i \in 1..Len(before) : \A j \in 1..Len(after) :
                    ~ /\ after[j].page = before[i].page
                      /\ after[j].x >= before[i].x
                      /\ after[j].y >= before[i].y
                      /\ after[j].x + after[j].width
                            <= before[i].x + before[i].width
                      /\ after[j].y + after[j].height
                            <= before[i].y + before[i].height

====
